---- MODULE Spec2Model ----
(***************************************************************************)
(* A model of questionnaire_analyzer.py: the response extractor            *)
(* (extract_json_from_response), the model client adapter                  *)
(* (analyze_section_with_gemini) and the region loop of main.              *)
(*                                                                         *)
(* Texts are sequences of one-character strings.  Python values are        *)
(* records [kind, val]:                                                    *)
(*   number  val = its digits          string  val = its characters        *)
(*   null / true / false  val = <<>>   array   val = sequence of values    *)
(*   object  val = function from keys (character sequences) to values      *)
(* A Python dict built by the program (an error object) is an "object".    *)
(***************************************************************************)
EXTENDS Integers, Sequences, FiniteSets, TLC

(***************************************************************************)
(* Python values                                                           *)
(***************************************************************************)
JNum(ds)  == [kind |-> "number", val |-> ds]
JStr(cs)  == [kind |-> "string", val |-> cs]
JLit(k)   == [kind |-> k,        val |-> <<>>]
JArr(es)  == [kind |-> "array",  val |-> es]
JObj(f)   == [kind |-> "object", val |-> f]

NoValue   == [kind |-> "none", val |-> <<>>]

\* dict(pairs): the last pair of a repeated key wins.
DictOf(pairs) ==
    LET keys == {pairs[i][1] : i \in 1..Len(pairs)}
        last(k) == CHOOSE i \in 1..Len(pairs) :
                      /\ pairs[i][1] = k
                      /\ \A j \in (i+1)..Len(pairs) : pairs[j][1] # k
    IN  JObj([k \in keys |-> pairs[last(k)][2]])

\* Equality of two Python values, kind first.
RECURSIVE PyEq(_, _)
PyEq(a, b) ==
    /\ a.kind = b.kind
    /\ CASE a.kind = "array"  ->
              /\ Len(a.val) = Len(b.val)
              /\ \A i \in 1..Len(a.val) : PyEq(a.val[i], b.val[i])
         [] a.kind = "object" ->
              /\ DOMAIN a.val = DOMAIN b.val
              /\ \A k \in DOMAIN a.val : PyEq(a.val[k], b.val[k])
         [] OTHER -> a.val = b.val

(***************************************************************************)
(* json.loads, for the part of the JSON grammar the modelled texts can     *)
(* hold: whitespace, objects, arrays, strings without escapes, unsigned    *)
(* integers, null, true, false.  A parse is [ok, val, end]: end is the     *)
(* index after the value.  Indices are 1-based.                            *)
(***************************************************************************)
IsWS(c)    == c \in {" ", "\n"}
IsDigit(c) == c \in {"0", "1", "2", "3", "4", "5", "6", "7", "8", "9"}

Fail == [ok |-> FALSE, val |-> NoValue, end |-> 0]
Ok(v, e) == [ok |-> TRUE, val |-> v, end |-> e]

\* WHITESPACE.match(s, i).end(): the first index at or after i that holds no
\* JSON whitespace (Len(s)+1 when there is none).
SkipWS(s, i) ==
    LET stop == {j \in i..Len(s) : ~IsWS(s[j])}
    IN  IF stop = {} THEN (IF i > Len(s) THEN i ELSE Len(s) + 1)
        ELSE CHOOSE j \in stop : \A k \in stop : j <= k

HasAt(s, i, w) ==
    /\ i >= 1
    /\ i + Len(w) - 1 <= Len(s)
    /\ \A k \in 1..Len(w) : s[i + k - 1] = w[k]

\* scanstring(s, i) with strict=True, i the index after the opening quote:
\* the characters up to the next quote; a control character is an error.
ParseString(s, i) ==
    LET quotes == {j \in i..Len(s) : s[j] = "\""}
    IN  IF quotes = {} THEN Fail
        ELSE LET q == CHOOSE j \in quotes : \A k \in quotes : j <= k
                 body == SubSeq(s, i, q - 1)
             IN  IF \E k \in 1..Len(body) : body[k] = "\n" THEN Fail
                 ELSE Ok(JStr(body), q + 1)

\* NUMBER_RE at i: 0, or a non-zero digit and the digits after it.
ParseNumber(s, i) ==
    IF s[i] = "0" THEN Ok(JNum(<<"0">>), i + 1)
    ELSE LET stop == {j \in i..Len(s) : ~IsDigit(s[j])}
             e == IF stop = {} THEN Len(s) + 1
                  ELSE CHOOSE j \in stop : \A k \in stop : j <= k
         IN  Ok(JNum(SubSeq(s, i, e - 1)), e)

RECURSIVE ScanOnce(_, _)
RECURSIVE ParseMembers(_, _, _)
RECURSIVE ParseElements(_, _, _)

\* JSONObject's loop: i is at the opening quote of a key.
ParseMembers(s, i, pairs) ==
    LET key == ParseString(s, i + 1)
    IN  IF ~key.ok THEN Fail
        ELSE LET c == SkipWS(s, key.end)
             IN  IF ~HasAt(s, c, <<":">>) THEN Fail
                 ELSE LET v == ScanOnce(s, SkipWS(s, c + 1))
                      IN  IF ~v.ok THEN Fail
                          ELSE LET n == SkipWS(s, v.end)
                                   acc == Append(pairs, <<key.val.val, v.val>>)
                               IN  IF HasAt(s, n, <<"}">>) THEN Ok(DictOf(acc), n + 1)
                                   ELSE IF ~HasAt(s, n, <<",">>) THEN Fail
                                   ELSE LET k == SkipWS(s, n + 1)
                                        IN  IF HasAt(s, k, <<"\"">>)
                                            THEN ParseMembers(s, k, acc)
                                            ELSE Fail

\* JSONObject: i is the index after "{".
ParseObject(s, i) ==
    LET n == SkipWS(s, i)
    IN  IF HasAt(s, n, <<"}">>) THEN Ok(DictOf(<<>>), n + 1)
        ELSE IF HasAt(s, n, <<"\"">>) THEN ParseMembers(s, n, <<>>)
        ELSE Fail

\* JSONArray's loop: i is at the start of an element.
ParseElements(s, i, elems) ==
    LET v == ScanOnce(s, i)
    IN  IF ~v.ok THEN Fail
        ELSE LET n == SkipWS(s, v.end)
                 acc == Append(elems, v.val)
             IN  IF HasAt(s, n, <<"]">>) THEN Ok(JArr(acc), n + 1)
                 ELSE IF HasAt(s, n, <<",">>)
                      THEN ParseElements(s, SkipWS(s, n + 1), acc)
                      ELSE Fail

\* JSONArray: i is the index after "[".
ParseArray(s, i) ==
    LET n == SkipWS(s, i)
    IN  IF HasAt(s, n, <<"]">>) THEN Ok(JArr(<<>>), n + 1)
        ELSE ParseElements(s, n, <<>>)

\* scan_once(s, i): the value that starts at i.
ScanOnce(s, i) ==
    IF i > Len(s) THEN Fail
    ELSE IF s[i] = "\"" THEN ParseString(s, i + 1)
    ELSE IF s[i] = "{" THEN ParseObject(s, i + 1)
    ELSE IF s[i] = "[" THEN ParseArray(s, i + 1)
    ELSE IF HasAt(s, i, <<"n","u","l","l">>) THEN Ok(JLit("null"), i + 4)
    ELSE IF HasAt(s, i, <<"t","r","u","e">>) THEN Ok(JLit("true"), i + 4)
    ELSE IF HasAt(s, i, <<"f","a","l","s","e">>) THEN Ok(JLit("false"), i + 5)
    ELSE IF IsDigit(s[i]) THEN ParseNumber(s, i)
    ELSE Fail

\* json.loads(s): one value, whitespace around it, nothing else ("Extra data"
\* otherwise).  ok = FALSE is json.JSONDecodeError.
Loads(s) ==
    LET v == ScanOnce(s, SkipWS(s, 1))
    IN  IF v.ok /\ SkipWS(s, v.end) = Len(s) + 1 THEN v ELSE Fail

(***************************************************************************)
(* The two regular expressions of extract_json_from_response               *)
(***************************************************************************)
\* The backtick (U+0060), which a TLA+ string cannot hold: every other
\* character of a text is the one-character string of itself.
BQ == "BQ"

FENCE_OPEN == <<BQ, BQ, BQ, "j", "s", "o", "n">>
FENCE_CLOSE == <<BQ, BQ, BQ>>

\* \s of the re module, on the characters the modelled texts hold.
IsReSpace(c) == c \in {" ", "\n"}

\* The end of a greedy \s* that starts at i.
ReSkipSpace(s, i) ==
    LET stop == {j \in i..Len(s) : ~IsReSpace(s[j])}
    IN  IF stop = {} THEN (IF i > Len(s) THEN i ELSE Len(s) + 1)
        ELSE CHOOSE j \in stop : \A k \in stop : j <= k

\* The group ends at which the tail \s*``` of the pattern matches, for a group
\* that starts at p: the greedy \s* runs to the next non-space, where ``` must
\* stand (a shorter \s* would put ``` on a space).
FenceGroupEnds(s, p) ==
    {e \in p..(Len(s) + 1) : HasAt(s, ReSkipSpace(s, e), FENCE_CLOSE)}

\* An attempt of ```json\s*(.*?)\s*``` at start i: the greedy \s* runs to p,
\* the lazy group takes the least end that lets the tail match.  Giving back
\* part of the first \s* only moves the group's start onto a space and adds no
\* end, so the attempt fails exactly when no end exists from p.
FenceMatchAt(s, i) ==
    IF ~HasAt(s, i, FENCE_OPEN) THEN [found |-> FALSE, group |-> <<>>]
    ELSE LET p == ReSkipSpace(s, i + Len(FENCE_OPEN))
             ends == FenceGroupEnds(s, p)
         IN  IF ends = {} THEN [found |-> FALSE, group |-> <<>>]
             ELSE LET e == CHOOSE x \in ends : \A y \in ends : x <= y
                  IN  [found |-> TRUE, group |-> SubSeq(s, p, e - 1)]

\* re.search(r'```json\s*(.*?)\s*```', s, re.DOTALL): the leftmost start with a
\* match; group is json_match.group(1).
FenceSearch(s) ==
    LET starts == {i \in 1..Len(s) : FenceMatchAt(s, i).found}
    IN  IF starts = {} THEN [found |-> FALSE, group |-> <<>>]
        ELSE FenceMatchAt(s, CHOOSE i \in starts : \A j \in starts : i <= j)

\* The end of the match of \{.*\} that starts at a: .* is greedy and, under
\* re.DOTALL, takes every character, then gives back to the last "}".
NonGreedyBraceEnd(s, a) ==
    LET closes == {b \in (a + 1)..Len(s) : s[b] = "}"}
    IN  CHOOSE b \in closes : \A c \in closes : b <= c

BraceEnd(s, a) ==
    LET closes == {b \in (a + 1)..Len(s) : s[b] = "}"}
    IN  CHOOSE b \in closes : \A c \in closes : b >= c

\* re.search(r'\{.*\}', s, re.DOTALL): the leftmost "{" that a "}" follows;
\* group is brace_match.group(0).
BraceSearch(s) ==
    LET starts == {a \in 1..Len(s) :
                      s[a] = "{" /\ \E b \in (a + 1)..Len(s) : s[b] = "}"}
    IN  IF starts = {} THEN [found |-> FALSE, group |-> <<>>]
        ELSE LET a == CHOOSE i \in starts : \A j \in starts : i <= j
             IN  [found |-> TRUE, group |-> SubSeq(s, a, BraceEnd(s, a))]

(***************************************************************************)
(* The error object of extract_json_from_response                          *)
(***************************************************************************)
TRUNCATE_AT == 500
ELLIPSIS == <<".", ".", ".">>

K_error        == <<"e", "r", "r", "o", "r">>
K_raw_response == <<"r", "a", "w", "_", "r", "e", "s", "p", "o", "n", "s", "e">>

\* "JSON解析エラー", in ASCII.
PARSE_ERROR == <<"J", "S", "O", "N", " ", "p", "a", "r", "s", "e", " ",
                 "e", "r", "r", "o", "r">>

\* response_text[:500] + "..." if len(response_text) > 500 else response_text
TruncateFrom500(t) ==
    IF Len(t) >= TRUNCATE_AT THEN SubSeq(t, 1, TRUNCATE_AT) \o ELLIPSIS ELSE t

Truncate(t) ==
    IF Len(t) > TRUNCATE_AT THEN SubSeq(t, 1, TRUNCATE_AT) \o ELLIPSIS ELSE t

\* The raw response is left out of the error object.
ParseErrorObjectNoRaw(t) == DictOf(<< <<K_error, JStr(PARSE_ERROR)>> >>)

ParseErrorObject(t) ==
    DictOf(<< <<K_error, JStr(PARSE_ERROR)>>,
              <<K_raw_response, JStr(Truncate(t))>> >>)

(***************************************************************************)
(* State                                                                   *)
(***************************************************************************)
VARIABLES
    \* extract_json_from_response
    response_text,  \* its argument
    epc,            \* its position: idle, direct, fenced, brace, fallback, returned
    eret,           \* its return value
    tried,          \* the strategies it has run, in order
    \* analyze_section_with_gemini
    apc,            \* its position
    api_key,        \* the key (main's text input, the adapter's argument)
    section_name,   \* its argument
    aret,           \* its return value
    apath,          \* the return statement that produced aret
    done_steps,     \* the steps of the remote call it has performed
    n_generate,     \* the generate_content calls it has issued
    response,       \* what generate_content returned
    raised,         \* the message of the exception it caught
    \* main
    pc,             \* its position
    idx,            \* the loop's index into BBOX_COORDINATES
    cropped_image,  \* the region the current crop holds
    results,        \* the dict results, as <<section, value>> in insertion order
    paths,          \* the return statement behind each entry of results
    events          \* the crops, calls, answers and recordings so far, in order

evars == <<response_text, epc, eret, tried>>
avars == <<apc, section_name, aret, apath, done_steps, n_generate, response, raised>>
mvars == <<pc, idx, cropped_image, results, paths>>
vars  == <<evars, avars, mvars, api_key, events>>

ExtractIdle ==
    /\ response_text = <<>>
    /\ epc = "idle"
    /\ eret = NoValue
    /\ tried = <<>>

AdapterIdle ==
    /\ apc = "idle"
    /\ section_name = "none"
    /\ aret = NoValue
    /\ apath = "none"
    /\ done_steps = {}
    /\ n_generate = 0
    /\ response = <<>>
    /\ raised = <<>>

MainIdle ==
    /\ pc = "idle"
    /\ idx = 0
    /\ cropped_image = "none"
    /\ results = <<>>
    /\ paths = <<>>

(***************************************************************************)
(* extract_json_from_response, one action per attempt                      *)
(***************************************************************************)
\* try: return json.loads(response_text)
ExtractDirect ==
    /\ epc = "direct"
    /\ tried' = Append(tried, "direct")
    /\ LET r == Loads(response_text)
       IN  IF r.ok THEN eret' = r.val /\ epc' = "returned"
           ELSE eret' = eret /\ epc' = "fenced"
    /\ UNCHANGED <<response_text, avars, mvars, api_key, events>>

\* A fenced block that does not parse ends the search.
ExtractFencedNoFallThrough ==
    /\ epc = "fenced"
    /\ tried' = Append(tried, "fenced")
    /\ LET m == FenceSearch(response_text)
           r == Loads(m.group)
       IN  IF m.found /\ r.ok THEN eret' = r.val /\ epc' = "returned"
           ELSE IF m.found THEN eret' = eret /\ epc' = "fallback"
           ELSE eret' = eret /\ epc' = "brace"
    /\ UNCHANGED <<response_text, avars, mvars, api_key, events>>

\* json_match = re.search(...); if json_match: try: return json.loads(group(1))
ExtractFenced ==
    /\ epc = "fenced"
    /\ tried' = Append(tried, "fenced")
    /\ LET m == FenceSearch(response_text)
           r == Loads(m.group)
       IN  IF m.found /\ r.ok THEN eret' = r.val /\ epc' = "returned"
           ELSE eret' = eret /\ epc' = "brace"
    /\ UNCHANGED <<response_text, avars, mvars, api_key, events>>

\* brace_match = re.search(...); if brace_match: try: return json.loads(group(0))
ExtractBrace ==
    /\ epc = "brace"
    /\ tried' = Append(tried, "brace")
    /\ LET m == BraceSearch(response_text)
           r == Loads(m.group)
       IN  IF m.found /\ r.ok THEN eret' = r.val /\ epc' = "returned"
           ELSE eret' = eret /\ epc' = "fallback"
    /\ UNCHANGED <<response_text, avars, mvars, api_key, events>>

\* return {"error": ..., "raw_response": ...}
ExtractFallback ==
    /\ epc = "fallback"
    /\ tried' = Append(tried, "fallback")
    /\ eret' = ParseErrorObject(response_text)
    /\ epc' = "returned"
    /\ UNCHANGED <<response_text, avars, mvars, api_key, events>>

Extract == ExtractDirect \/ ExtractFenced \/ ExtractBrace \/ ExtractFallback

(***************************************************************************)
(* The texts the extractor is run on                                       *)
(***************************************************************************)
MaxChunks == 4
MaxPads   == 6
PadLen    == 100

RECURSIVE Flatten(_)
Flatten(cs) == IF cs = <<>> THEN <<>> ELSE Head(cs) \o Flatten(Tail(cs))

SeqsUpTo(S, n) == UNION {[1..k -> S] : k \in 0..n}

\* Short texts: every concatenation of at most MaxChunks of these pieces.
Chunks ==
    { <<"{">>, <<"}">>, <<"{", "}">>, <<"1">>, <<" ">>, <<"\"">>,
      FENCE_OPEN, FENCE_CLOSE }

\* Long texts, none of which parses: at most MaxPads of these pieces.
Pads == { [i \in 1..PadLen |-> "x"], <<"x">>, <<"{">> }

ExtractTexts ==
    {Flatten(cs) : cs \in SeqsUpTo(Chunks, MaxChunks)}
        \cup {Flatten(cs) : cs \in SeqsUpTo(Pads, MaxPads)}

InitExtract ==
    /\ response_text \in ExtractTexts
    /\ epc = "direct"
    /\ eret = NoValue
    /\ tried = <<>>
    /\ AdapterIdle
    /\ MainIdle
    /\ api_key = ""
    /\ events = <<>>

NextExtract == Extract

SpecExtract == InitExtract /\ [][NextExtract]_vars

(***************************************************************************)
(* analyze_section_with_gemini                                             *)
(***************************************************************************)
\* BBOX_COORDINATES, in the order of its keys.
Sections == <<"A", "B", "C", "D">>

BBOX_COORDINATES ==
    [A |-> <<47, 156, 880, 499>>,
     B |-> <<47, 504, 880, 902>>,
     C |-> <<47, 906, 881, 1083>>,
     D |-> <<45, 1083, 320, 1200>>]

\* The keys of the dict prompts.
PromptKeys == {"A", "B", "C", "D"}

\* Python's None, for an absent key; a key is otherwise a string.
PY_NONE == "None (absent)"

\* not api_key
Falsy(k) == k = PY_NONE \/ k = ""

\* "Gemini APIキーが設定されていません", in ASCII.
MISSING_KEY ==
    <<"A", "P", "I", " ", "k", "e", "y", " ", "i", "s", " ", "n", "o", "t",
      " ", "s", "e", "t">>

\* "Gemini API エラー: ", in ASCII.
API_ERROR_PREFIX ==
    <<"G", "e", "m", "i", "n", "i", " ", "A", "P", "I", " ", "e", "r", "r",
      "o", "r", ":", " ">>


\* str(e) of the exceptions the client library and PIL raise.
EXC_MESSAGES == { <<"q", "u", "o", "t", "a">> }

\* str(KeyError(k))
KeyErrorMessage(k) == <<"'", k, "'">>

\* What the model may answer.
\* The shape the prompts ask for.
R_STRUCTURED ==
    <<"{", "\"", "s", "e", "c", "t", "i", "o", "n", "\"", ":", "\"", "A",
      "\"", ",", "\"", "t", "i", "t", "l", "e", "\"", ":", "\"", "t", "\"",
      ",", "\"", "q", "u", "e", "s", "t", "i", "o", "n", "s", "\"", ":",
      "[", "]", "}">>

\* An empty object in a fenced block, after commentary.
R_FENCED ==
    <<"H", "e", "r", "e", ":", "\n", BQ, BQ, BQ, "j", "s", "o", "n", "\n",
      "{", "}", "\n", BQ, BQ, BQ>>

\* An object with an error field, between commentary.
R_BRACED ==
    <<"o", "k", " ", "{", "\"", "e", "r", "r", "o", "r", "\"", ":", "\"",
      "x", "\"", "}", " ", ".">>

\* No JSON at all.
R_NOISE ==
    <<"n", "o", " ", "j", "s", "o", "n", " ", "h", "e", "r", "e">>

\* A JSON number.
R_NUMBER ==
    <<"1">>

\* A JSON string.
R_STRING ==
    <<"\"", "e", "r", "r", "o", "r", "\"">>

\* A JSON array.
R_ARRAY ==
    <<"[", "1", "]">>

ResponseTexts ==
    {R_STRUCTURED, R_FENCED, R_BRACED, R_NOISE, R_NUMBER, R_STRING, R_ARRAY}

\* {"error": "Gemini APIキーが設定されていません"}
MissingKeyObject == DictOf(<< <<K_error, JStr(MISSING_KEY)>> >>)

\* {"error": f"Gemini API エラー: {str(e)}"}
ApiErrorObject(msg) == DictOf(<< <<K_error, JStr(API_ERROR_PREFIX \o msg)>> >>)

\* except Exception as e: return {"error": ...}
Caught(msg) ==
    /\ raised' = msg
    /\ aret' = ApiErrorObject(msg)
    /\ apath' = "exception"
    /\ apc' = "returned"

\* The guard is missing: the call is attempted with any key.
AdapterEntryNoGuard ==
    /\ apc = "entry"
    /\ apc' = "configure"
    /\ UNCHANGED <<aret, apath>>
    /\ UNCHANGED <<section_name, done_steps, n_generate, response, raised>>
    /\ UNCHANGED <<evars, mvars, api_key, events>>

\* if not api_key: return {"error": ...}
AdapterEntry ==
    /\ apc = "entry"
    /\ IF Falsy(api_key)
       THEN /\ aret' = MissingKeyObject
            /\ apath' = "nokey"
            /\ apc' = "returned"
       ELSE /\ apc' = "configure"
            /\ UNCHANGED <<aret, apath>>
    /\ UNCHANGED <<section_name, done_steps, n_generate, response, raised>>
    /\ UNCHANGED <<evars, mvars, api_key, events>>

\* genai.configure(api_key=api_key): it runs, or it raises.
AdapterConfigure ==
    /\ apc = "configure"
    /\ done_steps' = done_steps \cup {"configure"}
    /\ \/ /\ apc' = "save"
          /\ UNCHANGED <<aret, apath, raised>>
       \/ \E msg \in EXC_MESSAGES : Caught(msg)
    /\ UNCHANGED <<section_name, n_generate, response>>
    /\ UNCHANGED <<evars, mvars, api_key, events>>

\* image.save(img_byte_arr, format='PNG'): it runs, or it raises.
AdapterSave ==
    /\ apc = "save"
    /\ done_steps' = done_steps \cup {"encode"}
    /\ \/ /\ apc' = "model"
          /\ UNCHANGED <<aret, apath, raised>>
       \/ \E msg \in EXC_MESSAGES : Caught(msg)
    /\ UNCHANGED <<section_name, n_generate, response>>
    /\ UNCHANGED <<evars, mvars, api_key, events>>

\* model = genai.GenerativeModel(model_name): it runs, or it raises.
AdapterModel ==
    /\ apc = "model"
    /\ done_steps' = done_steps \cup {"model"}
    /\ \/ /\ apc' = "generate"
          /\ UNCHANGED <<aret, apath, raised>>
       \/ \E msg \in EXC_MESSAGES : Caught(msg)
    /\ UNCHANGED <<section_name, n_generate, response>>
    /\ UNCHANGED <<evars, mvars, api_key, events>>

\* model.generate_content([prompts[section_name], {...}]): the prompt is looked
\* up first (KeyError for a section with no prompt), then the call is issued.
AdapterGenerate ==
    /\ apc = "generate"
    /\ IF section_name \notin PromptKeys
       THEN /\ Caught(KeyErrorMessage(section_name))
            /\ UNCHANGED <<done_steps, n_generate, events>>
       ELSE /\ done_steps' = done_steps \cup {"generate"}
            /\ n_generate' = n_generate + 1
            /\ events' = Append(events, <<"call", section_name, cropped_image>>)
            /\ apc' = "await"
            /\ UNCHANGED <<aret, apath, raised>>
    /\ UNCHANGED <<section_name, response>>
    /\ UNCHANGED <<evars, mvars, api_key>>

\* A failed call is issued again, once.
AdapterAnswerRetry ==
    /\ apc = "await"
    /\ events' = Append(events, <<"answer", section_name>>)
    /\ \/ /\ \E text \in ResponseTexts : response' = text
          /\ apc' = "text"
          /\ UNCHANGED <<aret, apath, raised>>
       \/ /\ n_generate < 2
          /\ apc' = "generate"
          /\ UNCHANGED <<aret, apath, raised, response>>
       \/ /\ n_generate >= 2
          /\ \E msg \in EXC_MESSAGES : Caught(msg)
          /\ UNCHANGED response
    /\ UNCHANGED <<section_name, done_steps, n_generate>>
    /\ UNCHANGED <<evars, mvars, api_key>>

\* The blocking call ends: with a response, or with an exception.
AdapterAnswer ==
    /\ apc = "await"
    /\ events' = Append(events, <<"answer", section_name>>)
    /\ \/ /\ \E text \in ResponseTexts : response' = text
          /\ apc' = "text"
          /\ UNCHANGED <<aret, apath, raised>>
       \/ /\ \E msg \in EXC_MESSAGES : Caught(msg)
          /\ UNCHANGED response
    /\ UNCHANGED <<section_name, done_steps, n_generate>>
    /\ UNCHANGED <<evars, mvars, api_key>>

\* extract_json_from_response(response.text): response.text raises, or the
\* extractor is entered with it.
AdapterText ==
    /\ apc = "text"
    /\ \/ /\ response_text' = response
          /\ epc' = "direct"
          /\ eret' = NoValue
          /\ tried' = <<>>
          /\ apc' = "extract"
          /\ UNCHANGED <<aret, apath, raised>>
       \/ /\ \E msg \in EXC_MESSAGES : Caught(msg)
          /\ UNCHANGED evars
    /\ UNCHANGED <<section_name, done_steps, n_generate, response>>
    /\ UNCHANGED <<mvars, api_key, events>>

\* result = extract_json_from_response(...); return result
AdapterReturn ==
    /\ apc = "extract"
    /\ epc = "returned"
    /\ aret' = eret
    /\ apath' = "extract"
    /\ apc' = "returned"
    /\ UNCHANGED <<section_name, done_steps, n_generate, response, raised>>
    /\ UNCHANGED <<evars, mvars, api_key, events>>

Adapter ==
    \/ AdapterEntry
    \/ AdapterConfigure
    \/ AdapterSave
    \/ AdapterModel
    \/ AdapterGenerate
    \/ AdapterAnswer
    \/ AdapterText
    \/ AdapterReturn

\* The uploaded image.
IMAGE == "image"

\* crop_image_by_bbox(image, bbox)
crop_image_by_bbox(image, bbox) == [of |-> image, box |-> bbox]

\* A direct call of the adapter, with any key and any section name.
InitAdapter ==
    /\ apc = "entry"
    /\ api_key \in {PY_NONE, "", "sk"}
    /\ section_name \in PromptKeys \cup {"Z"}
    /\ cropped_image \in {crop_image_by_bbox(IMAGE, BBOX_COORDINATES[k]) : k \in {"A", "D"}}
    /\ aret = NoValue
    /\ apath = "none"
    /\ done_steps = {}
    /\ n_generate = 0
    /\ response = <<>>
    /\ raised = <<>>
    /\ ExtractIdle
    /\ pc = "idle"
    /\ idx = 0
    /\ results = <<>>
    /\ paths = <<>>
    /\ events = <<>>

NextAdapter == Adapter \/ Extract

SpecAdapter == InitAdapter /\ [][NextAdapter]_vars

(***************************************************************************)
(* main: the button handler and the region loop                            *)
(***************************************************************************)
\* d[k] = v on a dict kept as <<key, value>> pairs in insertion order.
DictSet(d, k, v) ==
    IF \E i \in 1..Len(d) : d[i][1] = k
    THEN [i \in 1..Len(d) |-> IF d[i][1] = k THEN <<k, v>> ELSE d[i]]
    ELSE Append(d, <<k, v>>)

DictKeys(d) == [i \in 1..Len(d) |-> d[i][1]]

\* d[k], for a key d holds.
DictGet(d, k) == d[CHOOSE i \in 1..Len(d) : d[i][1] = k][2]

\* w in v: a key of a dict, an element of a list, a substring of a str, and
\* TypeError for a value that is no container.
PyIn(w, v) ==
    CASE v.kind = "object" -> IF w \in DOMAIN v.val THEN "True" ELSE "False"
      [] v.kind = "array"  ->
             IF \E i \in 1..Len(v.val) : PyEq(v.val[i], JStr(w))
             THEN "True" ELSE "False"
      [] v.kind = "string" ->
             IF \E i \in 1..Len(v.val) : HasAt(v.val, i, w)
             THEN "True" ELSE "False"
      [] OTHER -> "TypeError"

\* v[w] with a str w: a dict is subscripted by it, a list and a str are not.
PySubscriptable(v) == v.kind = "object"

\* The key is not checked: the loop runs with any key.
MainButtonNoKeyCheck ==
    /\ pc = "button"
    /\ results' = <<>>
    /\ pc' = "loop"
    /\ UNCHANGED <<idx, cropped_image, paths>>
    /\ UNCHANGED <<evars, avars, api_key, events>>

\* if st.button(...): if not api_key: st.error(...); return
\* results = {}
MainButton ==
    /\ pc = "button"
    /\ IF Falsy(api_key)
       THEN /\ pc' = "aborted"
            /\ UNCHANGED results
       ELSE /\ results' = <<>>
            /\ pc' = "loop"
    /\ UNCHANGED <<idx, cropped_image, paths>>
    /\ UNCHANGED <<evars, avars, api_key, events>>

\* for section, bbox in BBOX_COORDINATES.items():
MainLoop ==
    /\ pc = "loop"
    /\ IF idx < Len(Sections)
       THEN /\ idx' = idx + 1
            /\ pc' = "crop"
       ELSE /\ pc' = "aggregate"
            /\ UNCHANGED idx
    /\ UNCHANGED <<cropped_image, results, paths>>
    /\ UNCHANGED <<evars, avars, api_key, events>>

\* cropped_image = crop_image_by_bbox(image, bbox)
MainCrop ==
    /\ pc = "crop"
    /\ cropped_image' = crop_image_by_bbox(IMAGE, BBOX_COORDINATES[Sections[idx]])
    /\ events' = Append(events, <<"crop", Sections[idx]>>)
    /\ pc' = "call"
    /\ UNCHANGED <<idx, results, paths>>
    /\ UNCHANGED <<evars, avars, api_key>>

\* Every call names the first section.
MainCallFirstSection ==
    /\ pc = "call"
    /\ apc = "idle"
    /\ apc' = "entry"
    /\ section_name' = Sections[1]
    /\ pc' = "wait"
    /\ UNCHANGED <<aret, apath, done_steps, n_generate, response, raised>>
    /\ UNCHANGED <<idx, cropped_image, results, paths>>
    /\ UNCHANGED <<evars, api_key, events>>

\* analyze_section_with_gemini(cropped_image, section, api_key, model_name)
MainCall ==
    /\ pc = "call"
    /\ apc = "idle"
    /\ apc' = "entry"
    /\ section_name' = Sections[idx]
    /\ pc' = "wait"
    /\ UNCHANGED <<aret, apath, done_steps, n_generate, response, raised>>
    /\ UNCHANGED <<idx, cropped_image, results, paths>>
    /\ UNCHANGED <<evars, api_key, events>>

\* result = analyze_section_with_gemini(...); results[section] = result
\* The two calls have returned: their frames are gone.
MainRecord ==
    /\ pc = "wait"
    /\ apc = "returned"
    /\ results' = DictSet(results, Sections[idx], aret)
    /\ paths' = DictSet(paths, Sections[idx], apath)
    /\ events' = Append(events, <<"record", Sections[idx]>>)
    /\ pc' = "check"
    /\ response_text' = <<>> /\ epc' = "idle" /\ eret' = NoValue /\ tried' = <<>>
    /\ apc' = "idle" /\ section_name' = "none" /\ aret' = NoValue
    /\ apath' = "none" /\ done_steps' = {} /\ n_generate' = 0
    /\ response' = <<>> /\ raised' = <<>>
    /\ UNCHANGED <<idx, cropped_image, api_key>>

\* if "error" in result: st.error(... result['error'] ...)
\*     if "raw_response" in result: ...
\* else: st.success(...); st.json(result)
\* A TypeError of the test or of the subscript leaves main.
MainCheck ==
    /\ pc = "check"
    /\ LET result == DictGet(results, Sections[idx])
           has == PyIn(K_error, result)
       IN  IF has = "TypeError" THEN pc' = "crashed"
           ELSE IF has = "True" /\ ~PySubscriptable(result) THEN pc' = "crashed"
           ELSE pc' = "loop"
    /\ UNCHANGED <<idx, cropped_image, results, paths>>
    /\ UNCHANGED <<evars, avars, api_key, events>>

\* st.json(results); json_str = json.dumps(results, ...); st.download_button(...)
MainAggregate ==
    /\ pc = "aggregate"
    /\ pc' = "done"
    /\ UNCHANGED <<idx, cropped_image, results, paths>>
    /\ UNCHANGED <<evars, avars, api_key, events>>

Main ==
    \/ MainButton
    \/ MainLoop
    \/ MainCrop
    \/ MainCall
    \/ MainRecord
    \/ MainCheck
    \/ MainAggregate

\* The button is clicked, with the key the sidebar holds.
Init ==
    /\ pc = "button"
    /\ api_key \in {"", "sk"}
    /\ idx = 0
    /\ cropped_image = "none"
    /\ results = <<>>
    /\ paths = <<>>
    /\ events = <<>>
    /\ AdapterIdle
    /\ ExtractIdle

Next == Main \/ Adapter \/ Extract

Spec == Init /\ [][Next]_vars

(***************************************************************************)
(* Properties                                                              *)
(***************************************************************************)
Min(S) == CHOOSE x \in S : \A y \in S : x <= y
Max(S) == CHOOSE x \in S : \A y \in S : x >= y
Last(q) == q[Len(q)]

\* s without its leading and trailing whitespace.
Strip(s) ==
    LET solid == {j \in 1..Len(s) : ~IsReSpace(s[j])}
    IN  IF solid = {} THEN <<>> ELSE SubSeq(s, Min(solid), Max(solid))

\* The first ```json that a ``` follows, and the first ``` after it.
FenceOpens(t) ==
    {i \in 1..Len(t) :
        /\ HasAt(t, i, FENCE_OPEN)
        /\ \E q \in (i + 7)..Len(t) : HasAt(t, q, FENCE_CLOSE)}

FirstFenceInner(t) ==
    LET i == Min(FenceOpens(t))
        q == Min({x \in (i + 7)..Len(t) : HasAt(t, x, FENCE_CLOSE)})
    IN  Strip(SubSeq(t, i + 7, q - 1))

FencedParses(t) == FenceOpens(t) # {} /\ Loads(FirstFenceInner(t)).ok

\* The span from the first "{" of the text to its last "}".
OpenBraces(t)  == {i \in 1..Len(t) : t[i] = "{"}
CloseBraces(t) == {i \in 1..Len(t) : t[i] = "}"}

HasBraceSpan(t) ==
    /\ OpenBraces(t) # {}
    /\ CloseBraces(t) # {}
    /\ Min(OpenBraces(t)) < Max(CloseBraces(t))

BraceSpan(t) == SubSeq(t, Min(OpenBraces(t)), Max(CloseBraces(t)))

SpanParses(t) == HasBraceSpan(t) /\ Loads(BraceSpan(t)).ok

\* An object with exactly the fields error and raw_response, the parse error
\* marker in the first.
IsParseErrorObject(v) ==
    /\ v.kind = "object"
    /\ DOMAIN v.val = {K_error, K_raw_response}
    /\ PyEq(v.val[K_error], JStr(PARSE_ERROR))

\* An object with the one field error, holding msg.
IsErrorOnly(v, msg) ==
    /\ v.kind = "object"
    /\ DOMAIN v.val = {K_error}
    /\ PyEq(v.val[K_error], JStr(msg))

\* C1: the extractor returns the first of direct parse, first fenced block,
\* first-"{"-to-last-"}" span that parses, consults no strategy after the one
\* that succeeds, and returns the error object only when all three fail.
C1_FirstSuccessWins ==
    epc = "returned" =>
        LET t == response_text
        IN  CASE Loads(t).ok ->
                    /\ tried = <<"direct">>
                    /\ PyEq(eret, Loads(t).val)
              [] ~Loads(t).ok /\ FencedParses(t) ->
                    /\ tried = <<"direct", "fenced">>
                    /\ PyEq(eret, Loads(FirstFenceInner(t)).val)
              [] ~Loads(t).ok /\ ~FencedParses(t) /\ SpanParses(t) ->
                    /\ tried = <<"direct", "fenced", "brace">>
                    /\ PyEq(eret, Loads(BraceSpan(t)).val)
              [] OTHER ->
                    /\ tried = <<"direct", "fenced", "brace", "fallback">>
                    /\ IsParseErrorObject(eret)

\* A fenced block won although the brace span parses to another value.
C1_FencedBeatsBrace ==
    /\ epc = "returned"
    /\ tried = <<"direct", "fenced">>
    /\ SpanParses(response_text)
    /\ ~PyEq(eret, Loads(BraceSpan(response_text)).val)

\* C2: the error object's raw_response is the text itself up to 500
\* characters, and its first 500 characters and "..." beyond: never more than
\* 503 characters, 503 for a text of 600.
C2_RawResponseTruncated ==
    (epc = "returned" /\ Last(tried) = "fallback") =>
        LET t == response_text
            raw == eret.val[K_raw_response].val
        IN  /\ Len(t) <= 500 => raw = t
            /\ Len(t) > 500 => raw = SubSeq(t, 1, 500) \o <<".", ".", ".">>
            /\ Len(raw) <= 503
            /\ Len(t) = 600 => Len(raw) = 503

\* A text of 600 characters failed every attempt.
C2_Text600 ==
    /\ epc = "returned"
    /\ Last(tried) = "fallback"
    /\ Len(response_text) = 600
    /\ Len(eret.val[K_raw_response].val) = 503

\* C8: once direct and fenced parsing have failed, the one candidate is the
\* span from the first "{" to the last "}" of the text: its value is returned
\* when it parses, the error object when it does not (or when there is no
\* span), whatever well-formed object lies inside it.
C8_GreedyBraceSpan ==
    (epc = "returned" /\ Len(tried) >= 3) =>
        LET t == response_text
        IN  IF SpanParses(t)
            THEN /\ tried = <<"direct", "fenced", "brace">>
                 /\ PyEq(eret, Loads(BraceSpan(t)).val)
            ELSE /\ Last(tried) = "fallback"
                 /\ IsParseErrorObject(eret)

\* The error object was returned for a text that holds a well-formed object.
C8_ObjectInsideFailedSpan ==
    /\ epc = "returned"
    /\ Last(tried) = "fallback"
    /\ \E b \in CloseBraces(response_text) : \E a \in OpenBraces(response_text) :
          a < b /\ Loads(SubSeq(response_text, a, b)).ok

K_section   == <<"s", "e", "c", "t", "i", "o", "n">>
K_title     == <<"t", "i", "t", "l", "e">>
K_questions == <<"q", "u", "e", "s", "t", "i", "o", "n", "s">>

\* A structured record: an object with section, title and questions.
IsStructuredRecord(v) ==
    v.kind = "object" /\ {K_section, K_title, K_questions} \subseteq DOMAIN v.val

\* An error record: an object with an error field.
IsErrorRecord(v) == v.kind = "object" /\ K_error \in DOMAIN v.val

C6_MissingKeyNoCall ==
    (Falsy(api_key) /\ apc # "entry") =>
        /\ apc = "returned"
        /\ apath = "nokey"
        /\ IsErrorOnly(aret, MISSING_KEY)
        /\ done_steps = {}
        /\ n_generate = 0
        /\ events = <<>>
        /\ epc = "idle"

\* The adapter has returned from a call with an absent key.
C6_ReturnedWithoutKey ==
    /\ api_key = PY_NONE
    /\ apc = "returned"

\* C7: an exception of any step is caught and returned as the error object
\* that carries its message, and generate_content is called at most once.
C7_CaughtNoRetry ==
    /\ n_generate <= 1
    /\ Cardinality({i \in 1..Len(events) : events[i][1] = "call"}) <= 1
    /\ raised # <<>> =>
          /\ ~Falsy(api_key)
          /\ apc = "returned"
          /\ apath = "exception"
          /\ IsErrorOnly(aret, API_ERROR_PREFIX \o raised)
    /\ (apc = "returned" /\ apath = "exception") => raised # <<>>

\* The call itself failed and its exception was returned.
C7_CallRaised ==
    /\ apc = "returned"
    /\ apath = "exception"
    /\ n_generate = 1
    /\ response = <<>>

\* The sections of the calls issued, in order.
CallsIssued ==
    LET at == {i \in 1..Len(events) : events[i][1] = "call"}
        RECURSIVE pick(_)
        pick(S) == IF S = {} THEN <<>>
                   ELSE <<events[Min(S)][2]>> \o pick(S \ {Min(S)})
    IN  pick(at)

SectionIndex(s) == CHOOSE i \in 1..Len(Sections) : Sections[i] = s

\* C4, as claimed: a finished invocation's results hold one entry for every
\* region, in the order A, B, C, D.
C4_OneEntryPerRegion ==
    pc \in {"done", "crashed"} => DictKeys(results) = Sections

\* C5, as claimed: whatever the regions' calls did, the invocation ends at the
\* aggregation step with every region cropped and recorded.
C5_NoRegionHaltsBatch ==
    (~Falsy(api_key) /\ pc \in {"done", "crashed"}) =>
        /\ pc = "done"
        /\ \A k \in 1..Len(Sections) :
              /\ \E i \in 1..Len(events) : events[i] = <<"crop", Sections[k]>>
              /\ \E i \in 1..Len(events) : events[i] = <<"record", Sections[k]>>

\* C9, as claimed: an invocation issues one call per region, in order.
C9_OneCallPerRegion ==
    pc = "done" => CallsIssued = Sections

\* C9, amended: the events of an invocation are, region after region in the
\* order A, B, C, D: the crop, at most one call (with that region's crop) and
\* its answer, the recording; a call is answered before anything else happens;
\* and the adapter and the extractor are idle whenever main is between regions.
C9_StrictlySequential ==
    /\ \A i \in 1..Len(events) :
          LET e == events[i]
              k == SectionIndex(e[2])
              before == IF i = 1 THEN <<"start", "none">> ELSE events[i - 1]
          IN  CASE e[1] = "crop" ->
                      IF k = 1 THEN i = 1
                      ELSE before = <<"record", Sections[k - 1]>>
                [] e[1] = "call" ->
                      /\ before = <<"crop", e[2]>>
                      /\ e[3] = crop_image_by_bbox(IMAGE, BBOX_COORDINATES[e[2]])
                [] e[1] = "answer" ->
                      /\ before[1] = "call"
                      /\ before[2] = e[2]
                [] e[1] = "record" ->
                      \/ before = <<"crop", e[2]>>
                      \/ before = <<"answer", e[2]>>
    /\ pc \in {"loop", "crop", "call", "check", "aggregate", "done", "crashed"} =>
          /\ apc = "idle"
          /\ epc = "idle"
          /\ events # <<>> => Last(events)[1] \in {"record", "crop"}
    /\ Cardinality({i \in 1..Len(events) : events[i][1] = "call"})
          - Cardinality({i \in 1..Len(events) : events[i][1] = "answer"}) \in {0, 1}

\* An invocation ended after a region made no call at all.
C9_RegionWithoutCall ==
    /\ pc = "done"
    /\ Len(CallsIssued) < Len(Sections)

\* C10: with an empty key main stops at the button: nothing is cropped, the
\* adapter is not entered, no result is recorded; and no entry of results ever
\* comes from the adapter's missing-key return.
C10_EmptyKeyAborts ==
    /\ Falsy(api_key) =>
          /\ pc \in {"button", "aborted"}
          /\ idx = 0
          /\ apc = "idle"
          /\ results = <<>>
          /\ events = <<>>
    /\ apath # "nokey"
    /\ \A i \in 1..Len(paths) : paths[i][2] # "nokey"

\* main has returned at the key check.
C10_Aborted ==
    /\ pc = "aborted"
    /\ api_key = ""

====
